---- MODULE Spec2Model ----
(***************************************************************************)
(* Model of src/main.cpp: a password validator built as a decorator chain. *)
(* LengthValidator is the base rule; DigitPasswordValidator,               *)
(* CasePasswordValidator and SymbolPasswordValidator wrap an inner         *)
(* validator held in PasswordValidatorDecorator::inner_.                   *)
(*                                                                         *)
(* A validator is a sequence of nodes, innermost first: node k+1 owns node *)
(* k through inner_ (a unique_ptr, so the ownership graph is a chain).     *)
(* inner_ = 0 is the null pointer.  Characters are bytes 0..255.           *)
(***************************************************************************)
EXTENDS Integers, Sequences, FiniteSets

VARIABLES chain, password, pc, cur, ret, log, ctype_out, memo

vars == <<chain, password, pc, cur, ret, log, ctype_out, memo>>

----------------------------------------------------------------------------
(* Bounds *)

MaxLen == 2          \* longest password over CoreAlphabet
MaxMin == 2          \* largest min_length given to LengthValidator
MaxDepth == 2        \* most decorators in a chain that repeats a kind
PureLen == 1         \* longest password over PureAlphabet
PureDepth == 2       \* as MaxDepth, in the repeated-call specification

\* 'a', 'A', '1', '!' and the byte 0xE9 (negative as a signed char)
CoreAlphabet == {97, 65, 49, 33, 233}

\* the 17 symbols of the literal, and their neighbours in the byte table
WideAlphabet ==
    {33, 64, 35, 36, 37, 94, 38, 42, 40, 41, 123, 125, 91, 93, 63, 60, 62}
    \cup {95, 43, 126, 45, 61, 47, 92, 46, 44, 59, 58, 39, 34, 96, 124}
    \cup {48, 57, 97, 122, 65, 90, 32, 9, 128, 255}

PureAlphabet == {97, 65, 49, 33}

SeqsUpTo(S, n) == UNION {[1..k -> S] : k \in 0..n}

\* every ordering of all but one character of CoreAlphabet: long enough to
\* hold a digit, a lowercase letter, an uppercase letter and a symbol at once
DistinctPasswords ==
    UNION {{p \in [1..Cardinality(S) -> S] : \A i, j \in 1..Cardinality(S) : p[i] = p[j] => i = j}
           : S \in {CoreAlphabet \ {c} : c \in CoreAlphabet}}

Passwords ==
    SeqsUpTo(CoreAlphabet, MaxLen)
    \cup DistinctPasswords
    \cup {<<c>> : c \in WideAlphabet}
    \cup {<<95, c>> : c \in WideAlphabet}

\* with "aA" and "aA1!", which pass the case rule and the full chain
PurePasswords == SeqsUpTo(PureAlphabet, PureLen) \cup {<<97, 65>>, <<97, 65, 49, 33>>}

Decorators == {"Digit", "Case", "Symbol"}

\* what islower/isupper answer for an argument outside 0..255 and EOF
CtypeOutcomes == {"neither", "lower", "upper"}

----------------------------------------------------------------------------
(* Objects *)

\* LengthValidator(min_length): length_(min_length)
LengthValidator(min_length) ==
    [kind |-> "Length", length_ |-> min_length, inner_ |-> 0]

\* PasswordValidatorDecorator(validator): inner_(std::move(validator));
\* a decorator has no length_, the field is kept 0 so that nodes are uniform
PasswordValidatorDecorator(kind, validator) ==
    [kind |-> kind, length_ |-> 0, inner_ |-> validator]

----------------------------------------------------------------------------
(* Pure parts of Validate *)

npos == -1           \* std::string::npos, size_type(-1)

\* "0123456789"
Digits == <<48, 49, 50, 51, 52, 53, 54, 55, 56, 57>>

\* variant: the literal without its last character, "!@#$%^&*(){}[]?<"
Symbols_NoCloseAngle == <<33, 64, 35, 36, 37, 94, 38, 42, 40, 41, 123, 125, 91, 93, 63, 60>>

\* "!@#$%^&*(){}[]?<>"
Symbols == <<33, 64, 35, 36, 37, 94, 38, 42, 40, 41, 123, 125, 91, 93, 63, 60, 62>>

Elems(s) == {s[i] : i \in 1..Len(s)}

\* string_view::find_first_of(const char*): 0-based index of the first
\* character of p that occurs in set, npos when there is none
RECURSIVE FindFrom(_, _, _)
FindFrom(p, set, i) ==
    IF i > Len(p) THEN npos
    ELSE IF p[i] \in Elems(set) THEN i - 1
    ELSE FindFrom(p, set, i + 1)

find_first_of(p, set) == FindFrom(p, set, 1)

\* password[i] is a char; as the int argument of islower/isupper a byte
\* above 127 is negative where char is signed
CharArg(c) == IF c >= 128 THEN c - 256 ELSE c

\* <cctype> is defined for 0..255 and EOF (-1); "C" locale
CtypeDefined(a) == a \in 0..255 \/ a = -1

islower(c) ==
    IF CtypeDefined(CharArg(c)) THEN CharArg(c) \in 97..122
    ELSE ctype_out = "lower"

isupper(c) ==
    IF CtypeDefined(CharArg(c)) THEN CharArg(c) \in 65..90
    ELSE ctype_out = "upper"

\* variant: password.length() > length_
LengthCheck_Strict(length_, p) == Len(p) > length_

\* password.length() >= length_
LengthCheck(length_, p) == Len(p) >= length_

\* password.find_first_of("0123456789") != npos
DigitCheck(p) == find_first_of(p, Digits) # npos

\* the for loop of CasePasswordValidator::Validate, i is 1-based here
RECURSIVE CaseLoop(_, _, _, _)
CaseLoop(p, i, has_lower, has_upper) ==
    IF i <= Len(p) /\ ~(has_upper /\ has_lower)
    THEN IF islower(p[i]) THEN CaseLoop(p, i + 1, TRUE, has_upper)
         ELSE IF isupper(p[i]) THEN CaseLoop(p, i + 1, has_lower, TRUE)
         ELSE CaseLoop(p, i + 1, has_lower, has_upper)
    ELSE has_lower /\ has_upper

CaseCheck(p) == CaseLoop(p, 1, FALSE, FALSE)

\* password.find_first_of("!@#$%^&*(){}[]?<>") != npos
SymbolCheck(p) == find_first_of(p, Symbols) # npos

\* the statements after the inner call in each decorator's Validate
OwnCheck(kind, p) ==
    CASE kind = "Digit" -> DigitCheck(p)
      [] kind = "Case" -> CaseCheck(p)
      [] kind = "Symbol" -> SymbolCheck(p)

----------------------------------------------------------------------------
(* Validate as a function of the chain c, the node k and the password p *)

RECURSIVE Validate(_, _, _)

LengthValidate(c, k, p) == LengthCheck(c[k].length_, p)

\* PasswordValidatorDecorator::Validate: return inner_->Validate(password)
DecoratorValidate(c, k, p) == Validate(c, c[k].inner_, p)

\* variant: the negation of the inner test is dropped
DigitValidate_Negated(c, k, p) ==
    IF DecoratorValidate(c, k, p) THEN FALSE ELSE DigitCheck(p)

DigitValidate(c, k, p) ==
    IF ~DecoratorValidate(c, k, p) THEN FALSE ELSE DigitCheck(p)

\* variant: the inner validator's answer is not consulted
CaseValidate_IgnoresInner(c, k, p) == CaseCheck(p)

CaseValidate(c, k, p) ==
    IF ~DecoratorValidate(c, k, p) THEN FALSE ELSE CaseCheck(p)

SymbolValidate(c, k, p) ==
    IF ~DecoratorValidate(c, k, p) THEN FALSE ELSE SymbolCheck(p)

\* virtual dispatch
Validate(c, k, p) ==
    CASE c[k].kind = "Length" -> LengthValidate(c, k, p)
      [] c[k].kind = "Digit" -> DigitValidate(c, k, p)
      [] c[k].kind = "Case" -> CaseValidate(c, k, p)
      [] c[k].kind = "Symbol" -> SymbolValidate(c, k, p)

----------------------------------------------------------------------------
(* State machine *)

NoMemo == [set |-> FALSE, chain |-> <<>>, pw |-> <<>>, res |-> FALSE]

Init ==
    /\ chain = <<>>
    /\ password = <<>>
    /\ pc = "idle"
    /\ cur = 0
    /\ ret = FALSE
    /\ log = <<>>
    /\ ctype_out \in CtypeOutcomes
    /\ memo = NoMemo

Idle == pc = "idle"

NumDecorators(c) == Cardinality({k \in 1..Len(c) : c[k].kind \in Decorators})

\* std::make_unique<LengthValidator>(n)
NewLength(n) ==
    /\ Idle
    /\ chain' = <<LengthValidator(n)>>
    /\ memo' = NoMemo
    /\ UNCHANGED <<password, pc, cur, ret, log, ctype_out>>

\* std::make_unique<XPasswordValidator>(std::move(validator)); chains that
\* repeat a kind are cut at depth decorators, chains of distinct kinds are not
Wrap(kind, depth) ==
    /\ Idle
    /\ chain # <<>>
    /\ \/ NumDecorators(chain) < depth
       \/ /\ \A k \in 1..Len(chain) : chain[k].kind # kind
          /\ \A i, j \in 1..Len(chain) : chain[i].kind = chain[j].kind => i = j
    /\ chain' = Append(chain, PasswordValidatorDecorator(kind, Len(chain)))
    /\ memo' = NoMemo
    /\ UNCHANGED <<password, pc, cur, ret, log, ctype_out>>

\* std::make_unique<XPasswordValidator>(nullptr): the constructor takes any
\* unique_ptr, an empty one included
WrapNull(kind) ==
    /\ Idle
    /\ chain' = <<PasswordValidatorDecorator(kind, 0)>>
    /\ memo' = NoMemo
    /\ UNCHANGED <<password, pc, cur, ret, log, ctype_out>>

\* validator->Validate(p) on the root
Call(p) ==
    /\ Idle
    /\ chain # <<>>
    /\ password' = p
    /\ cur' = Len(chain)
    /\ pc' = "call"
    /\ log' = <<[ev |-> "call", node |-> Len(chain), val |-> FALSE]>>
    /\ UNCHANGED <<chain, ret, ctype_out, memo>>

\* a decorator's Validate starts with PasswordValidatorDecorator::Validate,
\* which calls inner_->Validate(password)
DecoratorCall ==
    /\ pc = "call"
    /\ chain[cur].kind \in Decorators
    /\ chain[cur].inner_ # 0
    /\ cur' = chain[cur].inner_
    /\ log' = Append(log, [ev |-> "call", node |-> chain[cur].inner_, val |-> FALSE])
    /\ UNCHANGED <<chain, password, pc, ret, ctype_out, memo>>

\* inner_->Validate through an empty unique_ptr: undefined behaviour, the
\* process dies or the call yields some boolean
NullDeref ==
    /\ pc = "call"
    /\ chain[cur].kind \in Decorators
    /\ chain[cur].inner_ = 0
    /\ \/ /\ pc' = "crashed"
          /\ UNCHANGED ret
       \/ /\ pc' = "ret"
          /\ ret' \in BOOLEAN
    /\ cur' = 0
    /\ UNCHANGED <<chain, password, log, ctype_out, memo>>

\* variant: LengthValidator::Validate stores the length it has just seen
LengthReturn_Caches ==
    /\ pc = "call"
    /\ chain[cur].kind = "Length"
    /\ ret' = LengthValidate(chain, cur, password)
    /\ chain' = [chain EXCEPT ![cur].length_ = Len(password)]
    /\ pc' = "ret"
    /\ log' = log \o <<[ev |-> "check", node |-> cur, val |-> LengthValidate(chain, cur, password)],
                       [ev |-> "ret", node |-> cur, val |-> LengthValidate(chain, cur, password)]>>
    /\ UNCHANGED <<password, cur, ctype_out, memo>>

\* LengthValidator::Validate
LengthReturn ==
    /\ pc = "call"
    /\ chain[cur].kind = "Length"
    /\ ret' = LengthValidate(chain, cur, password)
    /\ pc' = "ret"
    /\ log' = log \o <<[ev |-> "check", node |-> cur, val |-> LengthValidate(chain, cur, password)],
                       [ev |-> "ret", node |-> cur, val |-> LengthValidate(chain, cur, password)]>>
    /\ UNCHANGED <<chain, password, cur, ctype_out, memo>>

Returning == pc = "ret" /\ cur < Len(chain)

\* variant: the own check is evaluated before the inner answer is tested
ShortCircuit_Evaluates ==
    /\ pc = "ret" /\ cur < Len(chain)
    /\ ~ret
    /\ cur' = cur + 1
    /\ ret' = FALSE
    /\ log' = log \o <<[ev |-> "check", node |-> cur + 1, val |-> OwnCheck(chain[cur + 1].kind, password)],
                       [ev |-> "ret", node |-> cur + 1, val |-> FALSE]>>
    /\ UNCHANGED <<chain, password, pc, ctype_out, memo>>

\* if (!PasswordValidatorDecorator::Validate(password)) return false;
ShortCircuit ==
    /\ Returning
    /\ ~ret
    /\ cur' = cur + 1
    /\ ret' = FALSE
    /\ log' = Append(log, [ev |-> "ret", node |-> cur + 1, val |-> FALSE])
    /\ UNCHANGED <<chain, password, pc, ctype_out, memo>>

\* the inner call returned true: the decorator evaluates its own check
OwnCheckReturn(kind) ==
    /\ Returning
    /\ ret
    /\ chain[cur + 1].kind = kind
    /\ cur' = cur + 1
    /\ ret' = OwnCheck(kind, password)
    /\ log' = log \o <<[ev |-> "check", node |-> cur + 1, val |-> OwnCheck(kind, password)],
                       [ev |-> "ret", node |-> cur + 1, val |-> OwnCheck(kind, password)]>>
    /\ UNCHANGED <<chain, password, pc, ctype_out, memo>>

DigitReturn == OwnCheckReturn("Digit")
CaseReturn == OwnCheckReturn("Case")
SymbolReturn == OwnCheckReturn("Symbol")

\* the root's Validate has returned ret to the caller
Done == pc = "ret" /\ cur = Len(chain)

\* what is left of a call once its frames are popped
CallEnds ==
    /\ pc' = "idle"
    /\ password' = <<>>
    /\ cur' = 0
    /\ ret' = FALSE
    /\ log' = <<>>

\* the caller takes the result (the assert of main)
Finish ==
    /\ Done
    /\ CallEnds
    /\ UNCHANGED <<chain, ctype_out, memo>>

\* as Finish, the caller keeping the result to compare a later call with
FinishRemember ==
    /\ Done
    /\ ~memo.set
    /\ CallEnds
    /\ memo' = [set |-> TRUE, chain |-> chain, pw |-> password, res |-> ret]
    /\ UNCHANGED <<chain, ctype_out>>

ValidateStep ==
    \/ DecoratorCall
    \/ NullDeref
    \/ LengthReturn
    \/ ShortCircuit
    \/ DigitReturn
    \/ CaseReturn
    \/ SymbolReturn

Next ==
    \/ \E n \in 0..MaxMin : NewLength(n)
    \/ \E kind \in Decorators : Wrap(kind, MaxDepth)
    \/ \E kind \in Decorators : WrapNull(kind)
    \/ \E p \in Passwords : Call(p)
    \/ ValidateStep
    \/ Finish

Spec == Init /\ [][Next]_vars

NextPure ==
    \/ \E n \in 0..MaxMin : NewLength(n)
    \/ \E kind \in Decorators : Wrap(kind, PureDepth)
    \/ \E kind \in Decorators : WrapNull(kind)
    \/ \E p \in PurePasswords : Call(p)
    \/ ValidateStep
    \/ Finish
    \/ FinishRemember

SpecPure == Init /\ [][NextPure]_vars

----------------------------------------------------------------------------
TypeOK ==
    /\ pc \in {"idle", "call", "ret", "crashed"}
    /\ ret \in BOOLEAN
    /\ cur \in 0..Len(chain)
    /\ ctype_out \in CtypeOutcomes

----------------------------------------------------------------------------
(* Vocabulary of the properties *)

AsciiDigits == 48..57
AsciiLower == 97..122
AsciiUpper == 65..90

\* ! # $ % & ( ) * < > ? @ [ ] ^ { }
SymbolSet == {33, 35, 36, 37, 38, 40, 41, 42, 60, 62, 63, 64, 91, 93, 94, 123, 125}

Has(p, S) == \E i \in 1..Len(p) : p[i] \in S

Kinds(c) == [k \in 1..Len(c) |-> c[k].kind]

\* a chain of decorators over a LengthValidator
WellFormed(c) ==
    /\ c # <<>>
    /\ c[1].kind = "Length"
    /\ \A k \in 2..Len(c) : c[k].kind \in Decorators /\ c[k].inner_ = k - 1

\* the local predicate the rule of this kind is specified to apply
LocalCheck(kind, p) ==
    CASE kind = "Digit" -> Has(p, AsciiDigits)
      [] kind = "Case" -> Has(p, AsciiLower) /\ Has(p, AsciiUpper)
      [] kind = "Symbol" -> Has(p, SymbolSet)

\* the chains with the base of c and the decorators of c in any order
Reorderings(c) ==
    {[k \in 1..Len(c) |-> IF k = 1 THEN c[1]
                          ELSE PasswordValidatorDecorator(c[f[k]].kind, k - 1)]
       : f \in {g \in [2..Len(c) -> 2..Len(c)] : \A i, j \in 2..Len(c) : g[i] = g[j] => i = j}}

\* c without its decorator at position k
RemoveAt(c, k) ==
    [i \in 1..(Len(c) - 1) |-> IF i < k THEN c[i]
                               ELSE PasswordValidatorDecorator(c[i + 1].kind, i - 1)]

\* the step machine and the function agree on the root's result
EvalAgrees == (Done /\ WellFormed(chain)) => ret = Validate(chain, Len(chain), password)

----------------------------------------------------------------------------
(* Claims *)

\* C1: Symbol(Case(Digit(Length(n)))) accepts p iff p has at least n
\* characters, a digit 0-9, an ASCII lowercase letter, an ASCII uppercase
\* letter and a character of the symbol set.
C1_FullChain ==
    (Done /\ WellFormed(chain) /\ Kinds(chain) = <<"Length", "Digit", "Case", "Symbol">>)
    => ret = (/\ Len(password) >= chain[1].length_
              /\ Has(password, AsciiDigits)
              /\ Has(password, AsciiLower)
              /\ Has(password, AsciiUpper)
              /\ Has(password, SymbolSet))

\* C2: for every decorator D over a legal inner validator V,
\* D(V).validate(p) = V.validate(p) AND localCheck_D(p).
C2_Conjunction ==
    (Done /\ WellFormed(chain) /\ Len(chain) >= 2)
    => ret = (/\ Validate(chain, Len(chain) - 1, password)
              /\ LocalCheck(chain[Len(chain)].kind, password))

\* C3: LengthRule(min) accepts p iff p has at least min characters; exactly
\* min characters are accepted and min = 0 accepts everything.
C3_Length ==
    (Done /\ Kinds(chain) = <<"Length">>)
    => ret = (Len(password) >= chain[1].length_)

C3_Witness ==
    /\ Done
    /\ Kinds(chain) = <<"Length">>
    /\ chain[1].length_ > 0
    /\ Len(password) = chain[1].length_
    /\ ret

\* C4: SymbolRule(LengthRule(0)) accepts p iff p contains one of exactly the
\* 17 characters ! @ # $ % ^ & * ( ) { } [ ] ? < >.
C4_SymbolSet ==
    (Done /\ chain = <<LengthValidator(0), PasswordValidatorDecorator("Symbol", 1)>>)
    => ret = Has(password, SymbolSet)

C4_Witness ==
    /\ Done
    /\ chain = <<LengthValidator(0), PasswordValidatorDecorator("Symbol", 1)>>
    /\ password = <<95, 43>>
    /\ ~ret

\* C5: CaseRule(LengthRule(0)) accepts p iff p contains an ASCII lowercase
\* letter and an ASCII uppercase letter; no other character sets a flag.
C5_CaseAscii ==
    (Done /\ chain = <<LengthValidator(0), PasswordValidatorDecorator("Case", 1)>>)
    => ret = (Has(password, AsciiLower) /\ Has(password, AsciiUpper))

\* C6: chains that stack the same decorators in different orders over
\* Length(n) return the same boolean for every password.
C6_OrderIrrelevant ==
    (Done /\ WellFormed(chain))
    => \A c2 \in Reorderings(chain) : Validate(c2, Len(c2), password) = ret

\* Digit is inside Case and rejects: Case's own check never runs here, and
\* runs (and passes) in the other order
C6_Witness ==
    /\ Done
    /\ WellFormed(chain)
    /\ Kinds(chain) = <<"Length", "Digit", "Case">>
    /\ ~Has(password, AsciiDigits)
    /\ Has(password, AsciiLower) /\ Has(password, AsciiUpper)
    /\ ~ret

\* C7: a decorator's own check starts only after its inner validator was
\* called and returned true; once an inner validator returns false no
\* further check is evaluated and every enclosing decorator returns false,
\* so the checks run innermost first and stop at the first failing rule.
C7_ShortCircuit ==
    (WellFormed(chain) /\ pc \in {"call", "ret"})
    => \A j \in 1..Len(log) :
         /\ (log[j].ev = "check" /\ log[j].node > 1)
            => \E r \in 1..(j - 1) :
                 /\ log[r] = [ev |-> "ret", node |-> log[j].node - 1, val |-> TRUE]
                 /\ \E i \in 1..(r - 1) : log[i].ev = "call" /\ log[i].node = log[j].node - 1
         /\ (log[j].ev = "ret" /\ ~log[j].val)
            => \A m \in (j + 1)..Len(log) : log[m].ev = "ret" /\ ~log[m].val
         /\ log[j].ev = "check"
            => \A i \in 1..(j - 1) : log[i].ev = "check" => log[i].node < log[j].node

\* the base rejects under two decorators and the root has returned
C7_Witness ==
    /\ Done
    /\ WellFormed(chain)
    /\ Len(chain) >= 3
    /\ \E j \in 1..Len(log) : log[j] = [ev |-> "ret", node |-> 1, val |-> FALSE]
    /\ Has(password, AsciiDigits)

\* C8: a password accepted by a chain is accepted by every chain obtained
\* by removing one decorator, at any position.
C8_Monotone ==
    (Done /\ WellFormed(chain) /\ ret)
    => \A k \in 2..Len(chain) :
         Validate(RemoveAt(chain, k), Len(chain) - 1, password)

\* a chain of three decorators accepts; one of the removals is in the middle
C8_Witness ==
    /\ Done
    /\ WellFormed(chain)
    /\ Len(chain) = 4
    /\ ret

\* C9: on a chain of decorators over a LengthValidator, a validate call
\* changes no length_ and no inner_, and a later call with the same password
\* returns what the remembered call returned.
C9_Pure ==
    (memo.set /\ WellFormed(memo.chain))
    => /\ memo.chain = chain
       /\ (Done /\ password = memo.pw) => ret = memo.res

C9_Witness ==
    /\ memo.set
    /\ Done
    /\ WellFormed(chain)
    /\ Len(chain) >= 2
    /\ password = memo.pw
    /\ ret

\* C10: every decorator built through the public constructors has a
\* non-null inner validator.
C10_InnerNonNull ==
    \A k \in 1..Len(chain) : chain[k].kind \in Decorators => chain[k].inner_ # 0

====
